---- MODULE Spec2Model ----
(***************************************************************************)
(* watch-rs: a persistent bash session (models/watcher.rs) driven by the   *)
(* runner thread of the TUI binary (bin/watcher_tui/tui/mod.rs), which     *)
(* sends its results over an unbounded crossbeam channel to the consumer   *)
(* loop WatcherTui::run_app (bin/watcher_tui/tui/watcher.rs).              *)
(*                                                                         *)
(* Time is counted in ticks.  The shell's output stream is a sequence of   *)
(* tokens: the token k >= 1 is a chunk of output the shell wrote for the   *)
(* k-th exec call of the session, the token CMD_END_MARKER is one          *)
(* occurrence of the end marker.                                           *)
(***************************************************************************)
EXTENDS Integers, Sequences, FiniteSets, TLC

\* ------------------------------------------------------------------ bounds

\* Iterations of the main loop the model follows.
MaxIter == 4
\* The time, in ticks, an exec that succeeds takes.
ExecTime == 1
\* Exec calls a caller makes on one session (SessionSpec).
MaxCalls == 4
\* Sessions created one after the other (SessionSpec).
MaxSessions == 2
\* Watcher::kill calls made on one session (SessionSpec).
MaxKills == 2
\* Characters a text area of the query screen takes (QuerySpec).
MaxText == 2

\* ------------------------------------------------------- program constants

\* The marker token (a fixed string: StdRng seeded with 5).
CMD_END_MARKER == 0
\* command_timeout of the NBReader, in ticks.
COMMAND_TIMEOUT == 3
\* watch_duration: Option<Duration>; None is infinite.
None == -1

\* The (interval, watch_duration) pairs of the runs that are followed.
Timings == { <<0, None>>, <<3, None>>, <<3, 2>>, <<0, 2>>, <<3, 0>> }

\* What the shell does with one command followed by the printf of the marker:
\*   out     it prints a chunk, then the marker              (echo hi)
\*   empty   it prints nothing, then the marker              (true)
\*   marker  its output holds the marker itself              (set -v; bin/try)
\*   hang    it never finishes, the marker is never printed  (sleep infinity)
\*   exit    the shell exits, its stdout is closed           (exit)
Behaviours == { "out", "empty", "marker", "hang", "exit" }
\* The runner is followed with the commands that matter to it: with or
\* without output, finishing or not.
RunnerBehaviours == { "out", "empty", "hang", "exit" }

VARIABLES
    interval,                 \* run_watcher_thread's interval
    watch_duration,           \* run_watcher_thread's watch_duration
    pc,                       \* where the runner thread is
    iteration,                \* the runner's iteration counter
    watcher_start_checkpoint, \* Instant taken after the setup phase
    captured_stdout,          \* the text the last exec returned
    shell,                    \* the bash subprocess: running, hung, exited, killed
    stream,                   \* what bash wrote and the reader has not returned yet
    calls,                    \* exec calls made on the session by the runner
    wrote,                    \* history: the output bash wrote for each call's command
    now,                      \* the clock
    queue,                    \* the channel's content
    receiver_alive,           \* FALSE once the Receiver was dropped
    should_close_watcher,     \* the AtomicBool
    cpc,                      \* where the consumer (run_app) is
    current_event,            \* WatcherTui.current_event
    exited,                   \* the process has exited
    emitted,                  \* history: the events the runner sent
    observed,                 \* history: the events the consumer received
    close_set,                \* history: where runner and consumer were when the flag was first set
    setup_commands,           \* QueryState.setup_commands: "" or some text
    lazy_marker,              \* the Lazy static behind CMD_END_MARKER, per process
    session_markers,          \* history: the marker each session created so far uses
    kill_result,              \* what the last Watcher::kill returned
    kills,                    \* Watcher::kill calls made on the session
    editing_tab,              \* QueryTui.editing_tab
    running_mode,             \* QueryTui.running_mode
    setup_textarea,           \* the text of the setup tab's TextArea
    main_textarea,            \* the text of the main tab's TextArea
    query_result,             \* what QueryTui::run_app returned: running, Some, None, Err
    query_state,              \* the QueryState returned in Some, << >> before
    key                       \* history: the terminal event run_app read last

vars == << interval, watch_duration, pc, iteration, watcher_start_checkpoint,
           captured_stdout, shell, stream, calls, wrote, now, queue,
           receiver_alive, should_close_watcher, cpc,
           current_event, exited, emitted, observed, close_set,
           setup_commands, lazy_marker, session_markers, kill_result, kills,
           editing_tab, running_mode, setup_textarea, main_textarea,
           query_result, query_state, key >>

runnerVars == << pc, iteration, watcher_start_checkpoint, captured_stdout >>
shellVars == << shell, stream, calls, wrote >>
consumerVars == << cpc, current_event, observed >>
configVars == << interval, watch_duration, setup_commands >>
apiVars == << lazy_marker, session_markers, kill_result, kills >>
queryVars == << editing_tab, running_mode, setup_textarea, main_textarea,
               query_result, query_state, key >>

\* ------------------------------------------------------------- the events

SetupResult(i, out) == [kind |-> "SetupResult", iteration |-> i, output |-> out]
\* A runner that numbers its results one too high.
IterationResultOffByOne(i, out) ==
    [kind |-> "IterationResult", iteration |-> i + 1, output |-> out]
IterationResult(i, out) == [kind |-> "IterationResult", iteration |-> i, output |-> out]
End == [kind |-> "End", iteration |-> 0, output |-> << >>]

\* WatcherIterationOutput of WatcherTui::new
InitialOutput == [iteration |-> 0, output |-> << >>]

\* ---------------------------------------------------------- shell session

\* What bash appends to its stdout for call k, by behaviour.
ShellOutput(b, k) ==
    CASE b = "out" -> << k, CMD_END_MARKER >>
      [] b = "empty" -> << CMD_END_MARKER >>
      [] b = "marker" -> << k, CMD_END_MARKER, k, CMD_END_MARKER >>
      [] b = "hang" -> << >>
      [] b = "exit" -> << >>

\* The part of ShellOutput that is the command's own output.
CommandOutput(b, k) ==
    CASE b = "out" -> << k >>
      [] b = "empty" -> << >>
      [] b = "marker" -> << k, CMD_END_MARKER, k >>
      [] b = "hang" -> << >>
      [] b = "exit" -> << >>

ShellAfter(b) ==
    CASE b = "hang" -> "hung"
      [] b = "exit" -> "exited"
      [] OTHER -> "running"

\* Position of the first marker in the buffer, 0 when there is none.
FindMarker(buf) ==
    IF \E i \in 1..Len(buf) : buf[i] = CMD_END_MARKER
    THEN CHOOSE i \in 1..Len(buf) :
            /\ buf[i] = CMD_END_MARKER
            /\ \A j \in 1..(i - 1) : buf[j] # CMD_END_MARKER
    ELSE 0

\* NBReader::read_until(ReadUntil::String(marker)): the text before the first
\* marker; text and marker are drained from the buffer.
ReadUntilText(buf) == SubSeq(buf, 1, FindMarker(buf) - 1)
ReadUntilRest(buf) == SubSeq(buf, FindMarker(buf) + 1, Len(buf))

\* ------------------------------------------------------------- the marker

\* The seed of the StdRng the marker is drawn from.
MARKER_SEED == 5

\* rng.sample_iter(Alphanumeric).take(100).collect() of
\* StdRng::seed_from_u64(seed): the string is a function of the seed alone.
MarkerFromSeed(seed) == IF seed = MARKER_SEED THEN CMD_END_MARKER ELSE seed

\* Lazy::force on the cell of the static, << >> before its first use in a
\* process and << value >> after: the closure runs on the first use, later
\* uses get the stored value.
LazyMarker(cell) == IF cell = << >> THEN MarkerFromSeed(MARKER_SEED) ELSE cell[1]

\* QueryState.setup_commands as QueryTui::run_app returns it: left empty, or
\* what the user typed in the setup tab.
SetupCommands == { "", "cmd" }

\* What the shell can do with the setup commands: given an empty line it
\* prints nothing but the marker.
SetupBehaviours(cmds) == IF cmds = "" THEN { "empty" } ELSE RunnerBehaviours

\* TextArea::lines().join("\n"): the lines with a line break between them.
RECURSIVE JoinLines(_)
JoinLines(lines) ==
    IF Len(lines) = 0 THEN << >>
    ELSE IF Len(lines) = 1 THEN lines[1]
    ELSE lines[1] \o << "\n" >> \o JoinLines(Tail(lines))

\* The text areas of the query screen as it was submitted, a sequence of
\* lines: the setup tab empty or not, as setup_commands says.
SubmittedText(cmds) == IF cmds = "" THEN << << >> >> ELSE << << "a" >> >>

\* ------------------------------------------------------------------- Init

Init ==
    /\ \E t \in Timings : interval = t[1] /\ watch_duration = t[2]
    /\ pc = "setup_exec"
    /\ iteration = 0
    /\ watcher_start_checkpoint = 0
    /\ captured_stdout = << >>
    /\ shell = "running"
    /\ stream = << >>
    /\ calls = 0
    /\ wrote = << >>
    /\ now = 0
    /\ queue = << >>
    /\ receiver_alive = TRUE
    /\ should_close_watcher = FALSE
    /\ cpc = "running"
    /\ current_event = InitialOutput
    /\ exited = FALSE
    /\ emitted = << >>
    /\ observed = << >>
    /\ close_set = [at |-> "never", iteration |-> 0, shown |-> 0]
    /\ setup_commands \in SetupCommands
    /\ lazy_marker = << LazyMarker(<< >>) >>
    /\ session_markers = << LazyMarker(<< >>) >>
    /\ kill_result = "none"
    /\ kills = 0
    /\ editing_tab = "MAIN"
    /\ running_mode = "SUBMIT"
    /\ setup_textarea = SubmittedText(setup_commands)
    /\ main_textarea = SubmittedText("cmd")
    /\ query_result = "Some"
    /\ query_state = << [setup_commands |-> JoinLines(SubmittedText(setup_commands)),
                         main_commands |-> JoinLines(SubmittedText("cmd"))] >>
    /\ key = "Enter"

\* ------------------------------------------------- exec_cmd_and_fetch_output

\* The two writeln! to the shell's stdin: bash runs the command, then the
\* printf of the marker.  b is what this command makes the shell do.
ExecWrite(b) ==
    /\ shell = "running"
    /\ calls' = calls + 1
    /\ stream' = stream \o ShellOutput(b, calls + 1)
    /\ wrote' = Append(wrote, CommandOutput(b, calls + 1))
    /\ shell' = ShellAfter(b)

\* read_until found the marker: Ok(captured_stdout), after d ticks.
ExecReadOk(d) ==
    /\ FindMarker(stream) # 0
    /\ captured_stdout' = ReadUntilText(stream)
    /\ stream' = ReadUntilRest(stream)
    /\ now' = now + d
    /\ UNCHANGED << shell, calls, wrote >>

\* read_until found no marker: Err(EOF) when bash closed its stdout, else
\* Err(Timeout) once command_timeout has passed.
ExecFails == FindMarker(stream) = 0
ExecError == IF shell = "exited" THEN "StreamClosed" ELSE "Timeout"
ExecReadErr ==
    /\ ExecFails
    /\ now' = now + (IF ExecError = "Timeout" THEN COMMAND_TIMEOUT ELSE ExecTime)
    /\ UNCHANGED << captured_stdout, shell, stream, calls, wrote >>

\* Watcher::kill
WatcherKill == "killed"

\* A kill that reports an error for a child that was killed before.
KillResultOnce(sh) == IF sh = "killed" THEN "Err" ELSE "Ok"
\* What Popen::kill returns: SIGKILL is sent to the child's pid unless the
\* child is known to have finished; the Watcher never waits for its child,
\* so the pid stays valid (alive or zombie) and the signal is accepted.
KillResult(sh) == "Ok"

\* ---------------------------------------------------------- the channel

\* Sender::send / try_send on the unbounded channel: Ok while a Receiver
\* exists, Err(Disconnected) once it was dropped.
\* A channel bounded to one event.
ChannelHasRoomForOne(q) == Len(q) < 1
\* unbounded(): the channel takes an event whatever it holds.
ChannelHasRoom(q) == TRUE
SendOk == receiver_alive /\ ChannelHasRoom(queue)
ChannelPush(q, ev) == Append(q, ev)

\* A channel that hands out its newest event first.
TryRecvNewest(q) == q[Len(q)]
\* Receiver::try_recv
TryRecvEvent(q) == Head(q)
TryRecvRest(q) == Tail(q)

\* .send(ev).unwrap(): the event is queued, or the thread panics.
SendOrPanic(ev, next) ==
    IF SendOk
    THEN /\ queue' = ChannelPush(queue, ev)
         /\ emitted' = Append(emitted, ev)
         /\ pc' = next
    ELSE /\ pc' = "panic_send"
         /\ UNCHANGED << queue, emitted >>

\* ------------------------------------------------------ run_watcher_thread

\* A counter that skips a number.
NextIterationSkips(i) == i + 2
\* iteration += 1
NextIteration(i) == i + 1

\* A runner that measures the duration from the start of the thread.
ElapsedSinceStart(checkpoint, t) == t
\* watcher_start_checkpoint.elapsed() at time t
Elapsed(checkpoint, t) == t - checkpoint

\* A runner that never reads the flag.
ShouldBreakOnlyDuration(close, duration, elapsed) ==
    duration # None /\ duration < elapsed
\* A runner that takes a missing watch_duration for one that has expired.
ShouldBreakNoneExpired(close, duration, elapsed) ==
    \/ close
    \/ duration < elapsed
\* The two break conditions after an iteration.
ShouldBreak(close, duration, elapsed) ==
    \/ close
    \/ duration # None /\ duration < elapsed

\* A runner that tests the break conditions before its first iteration.
AfterSetupChecksFirst == "check"
\* After the setup phase the loop is entered at its top: the first exec of
\* the main command comes before any test.
AfterSetup == "loop_top"

\* A runner that takes a failed exec for an empty result and sends it.
OnExecErrSendsResult == "iter_send"
\* .unwrap() of the Err of an exec of the main command.
OnExecErr == "panic_exec"

Runs == ~exited

\* watcher.exec_cmd_and_fetch_output(&query_state.setup_commands): the write
SetupExec ==
    /\ Runs /\ pc = "setup_exec"
    /\ \E b \in SetupBehaviours(setup_commands) : ExecWrite(b)
    /\ pc' = "setup_read"
    /\ UNCHANGED << iteration, watcher_start_checkpoint, captured_stdout, now,
                    queue, receiver_alive, should_close_watcher,
                    exited, emitted, close_set >>
    /\ UNCHANGED consumerVars /\ UNCHANGED configVars /\ UNCHANGED queryVars /\ UNCHANGED apiVars

\* ... its read_until returns Ok
SetupReturn ==
    /\ Runs /\ pc = "setup_read"
    /\ ExecReadOk(ExecTime)
    /\ pc' = "setup_send"
    /\ UNCHANGED << iteration, watcher_start_checkpoint, queue, receiver_alive,
                    should_close_watcher, exited, emitted, close_set >>
    /\ UNCHANGED consumerVars /\ UNCHANGED configVars /\ UNCHANGED queryVars /\ UNCHANGED apiVars

\* ... its read_until returns Err: .unwrap() panics; the unwinding drops the
\* Sender and the Watcher (a detached Popen: dropped, not killed).
SetupFails ==
    /\ Runs /\ pc = "setup_read"
    /\ ExecReadErr
    /\ pc' = "panic_exec"
    /\ UNCHANGED << iteration, watcher_start_checkpoint, queue, receiver_alive,
                    should_close_watcher, exited, emitted, close_set >>
    /\ UNCHANGED consumerVars /\ UNCHANGED configVars /\ UNCHANGED queryVars /\ UNCHANGED apiVars

\* send(SetupResult {iteration: 0, ..}).unwrap(); Instant::now(); iteration = 0
SendSetupResult ==
    /\ Runs /\ pc = "setup_send"
    /\ SendOrPanic(SetupResult(0, captured_stdout), AfterSetup)
    /\ watcher_start_checkpoint' = IF SendOk THEN now ELSE watcher_start_checkpoint
    /\ iteration' = iteration
    /\ UNCHANGED << captured_stdout, now, receiver_alive, should_close_watcher,
                    exited, close_set >>
    /\ UNCHANGED shellVars /\ UNCHANGED consumerVars /\ UNCHANGED configVars /\ UNCHANGED queryVars /\ UNCHANGED apiVars

\* loop { iteration += 1; exec(main_commands): the write
IterationExec ==
    /\ Runs /\ pc = "loop_top"
    /\ iteration < MaxIter
    /\ iteration' = NextIteration(iteration)
    /\ \E b \in RunnerBehaviours : ExecWrite(b)
    /\ pc' = "iter_read"
    /\ UNCHANGED << watcher_start_checkpoint, captured_stdout, now, queue,
                    receiver_alive, should_close_watcher, exited,
                    emitted, close_set >>
    /\ UNCHANGED consumerVars /\ UNCHANGED configVars /\ UNCHANGED queryVars /\ UNCHANGED apiVars

IterationReturn ==
    /\ Runs /\ pc = "iter_read"
    /\ ExecReadOk(ExecTime)
    /\ pc' = "iter_send"
    /\ UNCHANGED << iteration, watcher_start_checkpoint, queue, receiver_alive,
                    should_close_watcher, exited, emitted, close_set >>
    /\ UNCHANGED consumerVars /\ UNCHANGED configVars /\ UNCHANGED queryVars /\ UNCHANGED apiVars

IterationFails ==
    /\ Runs /\ pc = "iter_read"
    /\ ExecReadErr
    /\ pc' = OnExecErr
    /\ UNCHANGED << iteration, watcher_start_checkpoint, queue, receiver_alive,
                    should_close_watcher, exited, emitted, close_set >>
    /\ UNCHANGED consumerVars /\ UNCHANGED configVars /\ UNCHANGED queryVars /\ UNCHANGED apiVars

\* try_send(IterationResult {iteration, output}).unwrap()
SendIterationResult ==
    /\ Runs /\ pc = "iter_send"
    /\ SendOrPanic(IterationResult(iteration, captured_stdout), "check")
    /\ UNCHANGED << iteration, watcher_start_checkpoint, captured_stdout, now,
                    receiver_alive, should_close_watcher, exited, close_set >>
    /\ UNCHANGED shellVars /\ UNCHANGED consumerVars /\ UNCHANGED configVars /\ UNCHANGED queryVars /\ UNCHANGED apiVars

\* if should_close_watcher.load() { break }  if duration < elapsed { break }
CheckBreak ==
    /\ Runs /\ pc = "check"
    /\ pc' = IF ShouldBreak(should_close_watcher, watch_duration,
                            Elapsed(watcher_start_checkpoint, now))
             THEN "end_send" ELSE "sleep"
    /\ UNCHANGED << iteration, watcher_start_checkpoint, captured_stdout, now,
                    queue, receiver_alive, should_close_watcher,
                    exited, emitted, close_set >>
    /\ UNCHANGED shellVars /\ UNCHANGED consumerVars /\ UNCHANGED configVars /\ UNCHANGED queryVars /\ UNCHANGED apiVars

\* thread::sleep(interval)
Sleep ==
    /\ Runs /\ pc = "sleep"
    /\ now' = now + interval
    /\ pc' = "loop_top"
    /\ UNCHANGED << iteration, watcher_start_checkpoint, captured_stdout,
                    queue, receiver_alive, should_close_watcher,
                    exited, emitted, close_set >>
    /\ UNCHANGED shellVars /\ UNCHANGED consumerVars /\ UNCHANGED configVars /\ UNCHANGED queryVars /\ UNCHANGED apiVars

\* try_send(End).unwrap()
SendEnd ==
    /\ Runs /\ pc = "end_send"
    /\ SendOrPanic(End, "kill")
    /\ UNCHANGED << iteration, watcher_start_checkpoint, captured_stdout, now,
                    receiver_alive, should_close_watcher, exited, close_set >>
    /\ UNCHANGED shellVars /\ UNCHANGED consumerVars /\ UNCHANGED configVars /\ UNCHANGED queryVars /\ UNCHANGED apiVars

\* watcher.kill().unwrap(); the thread ends, the Sender is dropped
Kill ==
    /\ Runs /\ pc = "kill"
    /\ shell' = WatcherKill
    /\ kill_result' = KillResult(shell)
    /\ kills' = kills + 1
    /\ pc' = IF KillResult(shell) = "Ok" THEN "done" ELSE "panic_kill"
    /\ UNCHANGED << iteration, watcher_start_checkpoint, captured_stdout,
                    stream, calls, wrote, now, queue, receiver_alive,
                    should_close_watcher, exited, emitted, close_set >>
    /\ UNCHANGED consumerVars /\ UNCHANGED configVars /\ UNCHANGED queryVars /\ UNCHANGED << lazy_marker, session_markers >>

\* ------------------------------------------------------ WatcherTui::run_app

\* Where the runner is, for the history close_set: in the sleep, in an exec
\* of the main command, between that exec and the load of the flag, or
\* elsewhere.
RunnerAt ==
    CASE pc = "sleep" -> "sleep"
      [] pc = "iter_read" -> "exec"
      [] pc \in { "iter_send", "check" } -> "check"
      [] OTHER -> "other"

\* A consumer that shows iteration results only.
CurrentEventSkipsSetup(cur, ev) ==
    IF ev.kind = "SetupResult" THEN cur
    ELSE [iteration |-> ev.iteration, output |-> ev.output]
\* self.current_event = match event { SetupResult(res) => res,
\* IterationResult(res) => res, .. }
CurrentEventAfter(cur, ev) == [iteration |-> ev.iteration, output |-> ev.output]

\* if let Ok(event) = try_recv(): End returns Ok(()), dropping the Receiver;
\* another event becomes current_event.
TryRecv ==
    /\ Runs /\ cpc = "running"
    /\ queue # << >>
    /\ observed' = Append(observed, TryRecvEvent(queue))
    /\ queue' = TryRecvRest(queue)
    /\ IF TryRecvEvent(queue).kind = "End"
       THEN /\ cpc' = "returned_ok"
            /\ receiver_alive' = FALSE
            /\ current_event' = current_event
       ELSE /\ cpc' = cpc
            /\ receiver_alive' = receiver_alive
            /\ current_event' = CurrentEventAfter(current_event, TryRecvEvent(queue))
    /\ UNCHANGED << should_close_watcher, exited, emitted, now, close_set >>
    /\ UNCHANGED runnerVars /\ UNCHANGED shellVars /\ UNCHANGED configVars /\ UNCHANGED queryVars /\ UNCHANGED apiVars

\* A handler that flips the flag.
FlagToggled(cur) == ~cur
\* The value store(true, Release) leaves in the flag.
FlagAfterCtrlC(cur) == TRUE

\* A handler that leaves run_app on Ctrl+C.
AfterCtrlCReturns == "returned_ok"
\* The Ctrl+C branch only stores the flag: run_app stays in its loop.
AfterCtrlC == "running"

\* Ctrl+C: should_close_watcher.store(true)
CtrlC ==
    /\ Runs /\ cpc = "running"
    /\ cpc' = AfterCtrlC
    /\ should_close_watcher' = FlagAfterCtrlC(should_close_watcher)
    /\ close_set' = IF should_close_watcher THEN close_set
                    ELSE [at |-> RunnerAt, iteration |-> iteration,
                          shown |-> current_event.iteration]
    /\ UNCHANGED << queue, receiver_alive, exited, emitted, now >>
    /\ UNCHANGED runnerVars /\ UNCHANGED shellVars /\ UNCHANGED << current_event, observed >>
    /\ UNCHANGED configVars /\ UNCHANGED queryVars /\ UNCHANGED apiVars

\* terminal.draw, term_event::poll or term_event::read returns Err: `?`
\* returns it, dropping the Receiver.
ConsumerIoError ==
    /\ Runs /\ cpc = "running"
    /\ cpc' = "returned_err"
    /\ receiver_alive' = FALSE
    /\ UNCHANGED << current_event, observed, queue, should_close_watcher, exited, emitted, now, close_set >>
    /\ UNCHANGED runnerVars /\ UNCHANGED shellVars /\ UNCHANGED configVars /\ UNCHANGED queryVars /\ UNCHANGED apiVars

\* run_tui_app returns to main, main returns: the process exits and the
\* runner thread stops wherever it is.
ProcessExit ==
    /\ Runs /\ cpc \in { "returned_ok", "returned_err" }
    /\ exited' = TRUE
    /\ UNCHANGED << queue, receiver_alive, should_close_watcher,
                    emitted, now, close_set >>
    /\ UNCHANGED runnerVars /\ UNCHANGED shellVars /\ UNCHANGED consumerVars
    /\ UNCHANGED configVars /\ UNCHANGED queryVars /\ UNCHANGED apiVars

Next ==
    \/ SetupExec
    \/ SetupReturn
    \/ SetupFails
    \/ SendSetupResult
    \/ IterationExec
    \/ IterationReturn
    \/ IterationFails
    \/ SendIterationResult
    \/ CheckBreak
    \/ Sleep
    \/ SendEnd
    \/ Kill
    \/ TryRecv
    \/ CtrlC
    \/ ConsumerIoError
    \/ ProcessExit

Spec == Init /\ [][Next]_vars

\* The steps of the runner thread.
RunnerNext ==
    \/ SetupExec
    \/ SetupReturn
    \/ SetupFails
    \/ SendSetupResult
    \/ IterationExec
    \/ IterationReturn
    \/ IterationFails
    \/ SendIterationResult
    \/ CheckBreak
    \/ Sleep
    \/ SendEnd
    \/ Kill

\* Both threads are scheduled: the runner thread takes its next step, each
\* pass of run_app polls the channel, and main returns once run_app has.
\* The user's keys and the failures of the terminal are under no such
\* obligation.
LiveSpec ==
    /\ Spec
    /\ WF_vars(RunnerNext)
    /\ WF_vars(TryRecv)
    /\ WF_vars(ProcessExit)

\* ------------------------------------------- one session, called directly

\* A caller of the Watcher API makes exec calls on one session, one after the
\* other, as long as they succeed (as both binaries do).
SessionInit ==
    /\ interval = 0
    /\ watch_duration = None
    /\ pc = "session_idle"
    /\ iteration = 0
    /\ watcher_start_checkpoint = 0
    /\ captured_stdout = << >>
    /\ shell = "running"
    /\ stream = << >>
    /\ calls = 0
    /\ wrote = << >>
    /\ now = 0
    /\ queue = << >>
    /\ receiver_alive = TRUE
    /\ should_close_watcher = FALSE
    /\ cpc = "running"
    /\ current_event = InitialOutput
    /\ exited = FALSE
    /\ emitted = << >>
    /\ observed = << >>
    /\ close_set = [at |-> "never", iteration |-> 0, shown |-> 0]
    /\ setup_commands = ""
    /\ lazy_marker = << LazyMarker(<< >>) >>
    /\ session_markers = << LazyMarker(<< >>) >>
    /\ kill_result = "none"
    /\ kills = 0
    /\ editing_tab = "MAIN"
    /\ running_mode = "SUBMIT"
    /\ setup_textarea = SubmittedText(setup_commands)
    /\ main_textarea = SubmittedText("cmd")
    /\ query_result = "Some"
    /\ query_state = << [setup_commands |-> JoinLines(SubmittedText(setup_commands)),
                         main_commands |-> JoinLines(SubmittedText("cmd"))] >>
    /\ key = "Enter"

sessionRest == << iteration, watcher_start_checkpoint, queue, receiver_alive,
                  should_close_watcher, exited, emitted, close_set,
                  consumerVars, configVars, queryVars >>

SessionExec ==
    /\ pc \in { "session_idle", "session_ok" }
    /\ calls < MaxCalls
    /\ \E b \in Behaviours : ExecWrite(b)
    /\ pc' = "session_read"
    /\ UNCHANGED << captured_stdout, now >>
    /\ UNCHANGED sessionRest /\ UNCHANGED apiVars

SessionReturn ==
    /\ pc = "session_read"
    /\ ExecReadOk(ExecTime)
    /\ pc' = "session_ok"
    /\ UNCHANGED sessionRest /\ UNCHANGED apiVars

SessionFails ==
    /\ pc = "session_read"
    /\ ExecReadErr
    /\ pc' = "session_err"
    /\ UNCHANGED sessionRest /\ UNCHANGED apiVars

\* Watcher::kill called by the caller, any number of times.
SessionKill ==
    /\ pc \in { "session_idle", "session_ok", "session_err" }
    /\ kills < MaxKills
    /\ shell' = WatcherKill
    /\ kill_result' = KillResult(shell)
    /\ kills' = kills + 1
    /\ UNCHANGED << pc, captured_stdout, stream, calls, wrote, now,
                    lazy_marker, session_markers >>
    /\ UNCHANGED sessionRest

\* Watcher::new again, in the same process or in another run of the program
\* (whose Lazy static starts uninitialised): the next session.
SessionNew ==
    /\ pc \in { "session_idle", "session_ok", "session_err" }
    /\ Len(session_markers) < MaxSessions
    /\ \E another_run \in BOOLEAN :
          /\ lazy_marker' =
                << LazyMarker(IF another_run THEN << >> ELSE lazy_marker) >>
          /\ session_markers' =
                Append(session_markers,
                       LazyMarker(IF another_run THEN << >> ELSE lazy_marker))
    /\ pc' = "session_idle"
    /\ shell' = "running"
    /\ stream' = << >>
    /\ calls' = 0
    /\ wrote' = << >>
    /\ captured_stdout' = << >>
    /\ kill_result' = "none"
    /\ kills' = 0
    /\ UNCHANGED now
    /\ UNCHANGED sessionRest

SessionNext ==
    \/ SessionExec
    \/ SessionReturn
    \/ SessionFails
    \/ SessionKill
    \/ SessionNew

SessionSpec == SessionInit /\ [][SessionNext]_vars

\* --------------------------------------------------------- the query screen

\* QueryEditTab, by discriminant (self as usize)
TabRepr(tab) == IF tab = "SETUP" THEN 0 ELSE 1
\* QueryEditTab::from_repr: Some(tab) as << tab >>, None as << >>
FromRepr(n) ==
    CASE n = 0 -> << "SETUP" >>
      [] n = 1 -> << "MAIN" >>
      [] OTHER -> << >>
\* usize::saturating_sub(1)
SaturatingSub1(n) == IF n = 0 THEN 0 ELSE n - 1
\* usize::saturating_add(1); the discriminants are far from usize::MAX
SaturatingAdd1(n) == n + 1
\* Option::unwrap_or
UnwrapOr(opt, default) == IF opt = << >> THEN default ELSE opt[1]

\* A previous that wraps around from the first tab to the last.
previous_wraps(tab) == IF tab = "SETUP" THEN "MAIN" ELSE "SETUP"
\* QueryEditTab::previous
previous(tab) == UnwrapOr(FromRepr(SaturatingSub1(TabRepr(tab))), tab)
\* QueryEditTab::next
next(tab) == UnwrapOr(FromRepr(SaturatingAdd1(TabRepr(tab))), tab)

\* The terminal events followed: keys without modifier (Enter, i, Esc, Left,
\* Right, a for any other character), Ctrl+C, Enter with a modifier, and an
\* event that is no key.
Keys == { "Ctrl+C", "Enter", "Shift+Enter", "i", "Esc", "Left", "Right", "a",
          "Resize" }

\* The arm of the match that takes the key, in the order of the arms.
MatchArm(mode, k) ==
    CASE k = "Resize" -> "ignore"
      [] k = "Ctrl+C" -> "quit"
      [] k = "Enter" /\ mode = "SUBMIT" -> "submit"
      [] k = "Enter" /\ mode = "NORMAL" -> "to_submit"
      [] k = "i" /\ mode # "EDITOR" -> "to_editor"
      [] k = "Esc" /\ mode = "EDITOR" -> "to_normal"
      [] k = "Left" /\ mode = "NORMAL" -> "previous"
      [] k = "Right" /\ mode = "NORMAL" -> "next"
      [] mode = "EDITOR" -> "input"
      [] OTHER -> "ignore"

ModeAfter(mode, k) ==
    CASE MatchArm(mode, k) = "to_submit" -> "SUBMIT"
      [] MatchArm(mode, k) = "to_editor" -> "EDITOR"
      [] MatchArm(mode, k) = "to_normal" -> "NORMAL"
      [] OTHER -> mode

\* A screen whose arrow keys change the tab in every mode.
TabAfterAnyMode(mode, tab, k) ==
    CASE k = "Left" -> previous(tab)
      [] k = "Right" -> next(tab)
      [] OTHER -> tab
TabAfter(mode, tab, k) ==
    CASE MatchArm(mode, k) = "previous" -> previous(tab)
      [] MatchArm(mode, k) = "next" -> next(tab)
      [] OTHER -> tab

\* TextArea::input(key) on the lines of the text: a character is inserted
\* in the line, Enter (with any modifier) starts a new line, the arrow keys
\* move the cursor only.  The cursor is not followed: the text grows at its
\* end.
TextInput(text, k) ==
    CASE k \in { "a", "i" } ->
            [text EXCEPT ![Len(text)] = Append(text[Len(text)], k)]
      [] k \in { "Enter", "Shift+Enter" } -> Append(text, << >>)
      [] OTHER -> text

\* The text area of tab t after the key.
TextAfter(mode, tab, t, text, k) ==
    IF MatchArm(mode, k) = "input" /\ tab = t THEN TextInput(text, k) ELSE text

\* The screen as QueryTui::new and the head of run_app set it up, with the
\* main command given on the command line or not; the shell session exists.
QueryInit ==
    /\ interval = 0
    /\ watch_duration = None
    /\ pc = "not_started"
    /\ iteration = 0
    /\ watcher_start_checkpoint = 0
    /\ captured_stdout = << >>
    /\ shell = "running"
    /\ stream = << >>
    /\ calls = 0
    /\ wrote = << >>
    /\ now = 0
    /\ queue = << >>
    /\ receiver_alive = TRUE
    /\ should_close_watcher = FALSE
    /\ cpc = "not_started"
    /\ current_event = InitialOutput
    /\ exited = FALSE
    /\ emitted = << >>
    /\ observed = << >>
    /\ close_set = [at |-> "never", iteration |-> 0, shown |-> 0]
    /\ setup_commands = ""
    /\ lazy_marker = << LazyMarker(<< >>) >>
    /\ session_markers = << LazyMarker(<< >>) >>
    /\ kill_result = "none"
    /\ kills = 0
    /\ editing_tab = "MAIN"
    /\ running_mode = "NORMAL"
    /\ setup_textarea = << << >> >>
    /\ main_textarea \in { << << >> >>, << << "a" >> >> }
    /\ query_result = "running"
    /\ query_state = << >>
    /\ key = "none"

queryRest == << interval, watch_duration, pc, iteration,
                watcher_start_checkpoint, captured_stdout, shell, stream,
                calls, wrote, now, queue, receiver_alive,
                should_close_watcher, cpc, current_event, emitted, observed,
                close_set, setup_commands, apiVars >>

\* One pass of the loop of QueryTui::run_app in which poll returns an event:
\* the whole match on it.
QueryKey ==
    /\ query_result = "running"
    /\ \E k \in Keys :
          /\ MatchArm(running_mode, k) = "input" =>
                Len(JoinLines(IF editing_tab = "SETUP" THEN setup_textarea
                              ELSE main_textarea)) < MaxText
          /\ key' = k
          /\ running_mode' = ModeAfter(running_mode, k)
          /\ editing_tab' = TabAfter(running_mode, editing_tab, k)
          /\ setup_textarea' =
                TextAfter(running_mode, editing_tab, "SETUP", setup_textarea, k)
          /\ main_textarea' =
                TextAfter(running_mode, editing_tab, "MAIN", main_textarea, k)
          /\ query_result' =
                CASE MatchArm(running_mode, k) = "quit" -> "None"
                  [] MatchArm(running_mode, k) = "submit" -> "Some"
                  [] OTHER -> "running"
          /\ query_state' =
                IF MatchArm(running_mode, k) = "submit"
                THEN << [setup_commands |-> JoinLines(setup_textarea),
                         main_commands |-> JoinLines(main_textarea)] >>
                ELSE query_state
    /\ UNCHANGED exited
    /\ UNCHANGED queryRest

\* terminal.draw, term_event::poll or term_event::read returns Err
QueryIoError ==
    /\ query_result = "running"
    /\ query_result' = "Err"
    /\ UNCHANGED << editing_tab, running_mode, setup_textarea, main_textarea,
                    query_state, key, exited >>
    /\ UNCHANGED queryRest

\* run_app returned None or Err: run_tui_app returns without starting the
\* runner thread, the Watcher is dropped (a detached Popen: not killed) and
\* the process exits.
QueryExit ==
    /\ query_result \in { "None", "Err" }
    /\ ~exited
    /\ exited' = TRUE
    /\ UNCHANGED queryVars
    /\ UNCHANGED queryRest

QueryNext ==
    \/ QueryKey
    \/ QueryIoError
    \/ QueryExit

QuerySpec == QueryInit /\ [][QueryNext]_vars

\* ================================================================ claims

Range(s) == { s[i] : i \in 1..Len(s) }
IsIterationResult(e) == e.kind = "IterationResult"
IterationsEmitted == SelectSeq(emitted, IsIterationResult)

\* The runner thread has stopped: it returned, or it panicked.
RunnerStopped == pc \in { "done", "panic_exec", "panic_send" }

\* C1: when the runner has stopped, whether it returned or an exec failed,
\* it has emitted exactly one End event and that event is the last emitted.
C1_ExactlyOneTerminated ==
    RunnerStopped =>
        /\ Len(emitted) > 0
        /\ emitted[Len(emitted)] = End
        /\ Cardinality({ i \in 1..Len(emitted) : emitted[i] = End }) = 1

\* C2: on every exit path of the runner, the failing ones included, the
\* shell subprocess has been killed when the runner stops.
C2_KilledOnEveryExit == RunnerStopped => shell = "killed"

\* C3, as claimed: when the flag was set during the sleep after iteration k,
\* the runner performs no iteration k+1.
C3_NoIterationAfterSleepCancel ==
    close_set.at = "sleep" => iteration = close_set.iteration

\* C3, amended: when the flag was set during the sleep after iteration k, the
\* runner starts iteration k+1 and no iteration after it: having started
\* iteration k+1 it never sleeps nor starts an exec again.
C3_OneIterationAfterSleepCancel ==
    close_set.at = "sleep" =>
        /\ iteration <= close_set.iteration + 1
        /\ pc \in { "sleep", "loop_top" } => iteration = close_set.iteration

C3_Witness ==
    /\ close_set.at = "sleep"
    /\ iteration = close_set.iteration + 1
    /\ pc = "done"

\* The scenario of C4: interval 0, no watch_duration, every command printed
\* its output, and the consumer set the flag when it was showing iteration 3.
C4_Scenario ==
    /\ interval = 0
    /\ watch_duration = None
    /\ \A k \in 1..Len(wrote) : wrote[k] = << k >>
    /\ close_set.shown = 3

\* SetupResult, IterationResult 1..n, each with its own command's output, End.
ExpectedEvents(n) ==
    << [kind |-> "SetupResult", iteration |-> 0, output |-> << 1 >>] >>
        \o [i \in 1..n |->
                [kind |-> "IterationResult", iteration |-> i, output |-> << i + 1 >>]]
        \o << [kind |-> "End", iteration |-> 0, output |-> << >>] >>

C5_KilledBeforeTerminated == End \in Range(emitted) => shell = "killed"

\* C6: with watch_duration < interval and no cancellation, iteration 2 is
\* never executed.
C6_OneIterationWhenDurationBelowInterval ==
    (watch_duration # None /\ watch_duration < interval /\ ~should_close_watcher)
        => iteration <= 1

\* C7: the i-th IterationResult emitted carries iteration i.
C7_IterationNumbersConsecutive ==
    \A i \in 1..Len(IterationsEmitted) : IterationsEmitted[i].iteration = i

C7_Witness ==
    /\ Len(IterationsEmitted) >= 3
    /\ IterationsEmitted[2].output = << >>

\* C8: no send of the runner fails, whatever the consumer did.
C8_SendNeverFails == pc # "panic_send"

\* C9: what the consumer has received, followed by what the channel holds, is
\* what the runner sent; SetupResult is sent first and only first, End last;
\* once the consumer has received End the channel is empty.
C9_ObservedInOrder ==
    /\ emitted = observed \o queue
    /\ \A i \in 1..Len(emitted) :
        /\ emitted[i].kind = "SetupResult" <=> i = 1
        /\ emitted[i] = End => i = Len(emitted)
    /\ End \in Range(observed) => queue = << >>

C9_Witness ==
    /\ Len(observed) >= 4
    /\ observed[Len(observed)] = End

\* C10: an exec that returns Ok returns exactly the output the shell wrote
\* for its own command, which holds no marker.
C10_ExecReturnsOwnOutput ==
    pc = "session_ok" =>
        /\ captured_stdout = wrote[calls]
        /\ CMD_END_MARKER \notin Range(captured_stdout)

\* C11: when an exec of the runner has failed with Timeout, which it does
\* command_timeout after the write, the runner has killed the shell when it
\* stops.
C11_KilledAfterTimeout ==
    (pc = "panic_exec" /\ ExecError = "Timeout") =>
        /\ now >= COMMAND_TIMEOUT
        /\ shell = "killed"

\* C12: no two sessions, of one process or of two runs of the program, use
\* the same marker.
C12_SessionsHaveDistinctMarkers ==
    \A i, j \in 1..Len(session_markers) :
        i # j => session_markers[i] # session_markers[j]

\* C13: when the flag was set while an exec of the main command was in
\* flight, that exec is not cut short: the runner starts no further
\* iteration, and when it goes to termination the result of that iteration
\* is the last IterationResult it has emitted.
C13_FlagReadAfterExec ==
    close_set.at = "exec" =>
        /\ iteration = close_set.iteration
        /\ (pc \in { "end_send", "kill", "done" } \/ End \in Range(emitted)) =>
              /\ IterationsEmitted # << >>
              /\ IterationsEmitted[Len(IterationsEmitted)].iteration
                    = close_set.iteration

C13_Witness ==
    /\ close_set.at = "exec"
    /\ close_set.iteration = 2
    /\ pc = "done"

\* C14: when the runner goes to termination it has executed the setup and
\* the first iteration and emitted SetupResult and IterationResult 1, in
\* that order, whatever watch_duration is and whenever the flag was set.
C14_SetupAndFirstIterationBeforeEnd ==
    (pc \in { "end_send", "kill", "done" } \/ End \in Range(emitted)) =>
        /\ calls >= 2
        /\ Len(emitted) >= 2
        /\ emitted[1].kind = "SetupResult"
        /\ emitted[2].kind = "IterationResult"
        /\ emitted[2].iteration = 1

C14_Witness ==
    /\ watch_duration = 0
    /\ close_set.at # "never"
    /\ close_set.iteration = 0
    /\ iteration = 1
    /\ pc = "done"

\* C15: no step resets the flag once it is set.
C15_FlagMonotone == [][should_close_watcher => should_close_watcher']_vars

C15_Witness ==
    /\ should_close_watcher
    /\ close_set.iteration = 1
    /\ iteration = 2
    /\ pc = "done"

\* C16: while the receiver exists, every send of the runner can be taken at
\* once and queues its event, whatever the channel holds and whatever the
\* consumer has or has not received.
C16_EmitNeverWaits ==
    (Runs /\ receiver_alive) =>
        /\ pc = "setup_send" => ENABLED (SendSetupResult /\ pc' = AfterSetup)
        /\ pc = "iter_send" => ENABLED (SendIterationResult /\ pc' = "check")
        /\ pc = "end_send" => ENABLED (SendEnd /\ pc' = "kill")

C16_Witness ==
    /\ cpc = "running"
    /\ observed = << >>
    /\ Len(queue) >= 4
    /\ pc = "done"

\* An exec of the main command has failed: the shell hangs or has exited
\* and the read has returned.
MainExecFailed ==
    /\ iteration >= 1
    /\ shell \in { "hung", "exited" }
    /\ pc # "iter_read"

\* C17: after a failed exec of the main command the runner has stopped, no
\* IterationResult carries that iteration's number, and no exec was made
\* after the failed one.
C17_FailedIterationEndsRun ==
    MainExecFailed =>
        /\ pc = "panic_exec"
        /\ Len(IterationsEmitted) = iteration - 1
        /\ \A i \in 1..Len(emitted) :
              emitted[i].kind = "IterationResult" => emitted[i].iteration < iteration
        /\ calls = iteration + 1

C17_Witness ==
    /\ MainExecFailed
    /\ iteration = 2
    /\ ExecError = "Timeout"

\* C18: the setup exec is made and SetupResult emitted only when setup
\* commands are configured, then once and before any IterationResult; after
\* a failed setup exec no iteration is executed.
C18_SetupOnlyWhenConfigured ==
    /\ setup_commands = "" =>
          /\ calls = iteration
          /\ \A i \in 1..Len(emitted) : emitted[i].kind # "SetupResult"
    /\ setup_commands # "" =>
          \A i \in 1..Len(emitted) : emitted[i].kind = "SetupResult" <=> i = 1
    /\ (pc = "panic_exec" /\ calls = 1) => iteration = 0

\* The phase of the runner's state machine; a panicked thread is in none.
PhaseRank(p) ==
    CASE p = "setup_exec" -> 0
      [] p \in { "setup_read", "setup_send" } -> 1
      [] p \in { "loop_top", "iter_read", "iter_send", "check", "sleep" } -> 2
      [] p \in { "end_send", "kill" } -> 3
      [] p = "done" -> 4
      [] OTHER -> 5

\* C20: the phase never goes back, an exec is issued only in Idle and
\* Looping, and a runner that stops has reached Terminated.
C20_PhasesInOrder ==
    [][ /\ PhaseRank(pc') >= PhaseRank(pc)
        /\ calls' # calls => PhaseRank(pc) \in { 0, 2 }
        /\ PhaseRank(pc') >= 4 => pc' = "done" ]_vars

C22_RunsOnWithoutDurationOrCancel ==
    (watch_duration = None /\ ~should_close_watcher) =>
        /\ pc \notin { "end_send", "kill", "done" }
        /\ End \notin Range(emitted)
        /\ (Runs /\ pc = "check") =>
              /\ ENABLED (CheckBreak /\ pc' = "sleep")
              /\ ~ENABLED (CheckBreak /\ pc' # "sleep")
        /\ (Runs /\ pc = "sleep") => ENABLED (Sleep /\ pc' = "loop_top")
        /\ (Runs /\ pc = "loop_top" /\ iteration < MaxIter) =>
              ENABLED (IterationExec /\ iteration' = iteration + 1)

C22_Witness ==
    /\ watch_duration = None
    /\ ~should_close_watcher
    /\ iteration = MaxIter
    /\ pc = "loop_top"
    /\ Len(IterationsEmitted) = MaxIter

\* C23: once the flag is set the runner starts at most one further exec of
\* the main command: none when the flag was set during an exec or between
\* an exec and the load of the flag, and exactly one, when the runner has
\* terminated, if it was set during the sleep.
C23_AtMostOneExecAfterCancel ==
    close_set.at # "never" =>
        /\ iteration <= close_set.iteration + 1
        /\ calls <= close_set.iteration + 2
        /\ close_set.at \in { "exec", "check" } =>
              /\ iteration = close_set.iteration
              /\ calls = close_set.iteration + 1
        /\ (close_set.at = "sleep" /\ pc = "done") =>
              /\ iteration = close_set.iteration + 1
              /\ calls = close_set.iteration + 2

C23_Witness ==
    /\ close_set.at = "check"
    /\ close_set.iteration = 2
    /\ pc = "done"

\* The consumer has returned Ok only after it received End.
ReturnedOkOnlyOnEnd ==
    cpc = "returned_ok" =>
        /\ observed # << >>
        /\ observed[Len(observed)] = End

\* The flag is set, early enough for the model to follow the run to its end.
CancelRequested == should_close_watcher /\ close_set.iteration < MaxIter

KilledWhenAppExits == exited => shell \notin { "running", "hung" }

\* C25: on the exit path without any failure, where run_app received End
\* and returned Ok and the process exited, the shell has been killed.
C25_KilledWhenAppExitsOnEnd ==
    (exited /\ cpc = "returned_ok") => shell = "killed"

IsResult(e) == e.kind \in { "SetupResult", "IterationResult" }

\* The result the consumer received last, the initial output before any.
LastResult(obs) ==
    IF SelectSeq(obs, IsResult) = << >> THEN InitialOutput
    ELSE [iteration |-> SelectSeq(obs, IsResult)[Len(SelectSeq(obs, IsResult))].iteration,
          output |-> SelectSeq(obs, IsResult)[Len(SelectSeq(obs, IsResult))].output]

\* C26: a step takes at most one event off the channel; current_event is
\* the result received last; its iteration number never decreases and never
\* exceeds the runner's iteration counter.
C26_ShownIsLastReceived ==
    [][ /\ Len(observed') \in { Len(observed), Len(observed) + 1 }
        /\ Len(queue') >= Len(queue) - 1
        /\ current_event' = LastResult(observed')
        /\ current_event'.iteration >= current_event.iteration
        /\ current_event'.iteration <= iteration' ]_vars

\* The consumer lags: it shows iteration 2 while the runner is in iteration 4
\* and two results wait in the channel.
C26_Witness ==
    /\ current_event.iteration = 2
    /\ iteration = 4
    /\ Len(queue) >= 2
    /\ Len(observed) = 3

\* C27: in the query screen run_app returns Some only on Enter without
\* modifier in SUBMIT mode, and the QueryState it returns holds the two
\* texts; SUBMIT is entered only by Enter without modifier in NORMAL mode;
\* Ctrl+C returns None in every mode; the tab changes only in NORMAL mode;
\* a text area changes only in EDITOR mode and only that of the selected
\* tab.
C27_QueryScreenTransitions ==
    [][ /\ (query_result' = "Some" /\ query_result # "Some") =>
              /\ key' = "Enter"
              /\ running_mode = "SUBMIT"
              /\ query_state' = << [setup_commands |-> JoinLines(setup_textarea),
                                    main_commands |-> JoinLines(main_textarea)] >>
        /\ (running_mode' = "SUBMIT" /\ running_mode # "SUBMIT") =>
              /\ key' = "Enter"
              /\ running_mode = "NORMAL"
        /\ key' = "Ctrl+C" => query_result' = "None"
        /\ query_result' = "None" => key' = "Ctrl+C"
        /\ editing_tab' # editing_tab => running_mode = "NORMAL"
        /\ setup_textarea' # setup_textarea =>
              /\ running_mode = "EDITOR"
              /\ editing_tab = "SETUP"
              /\ main_textarea' = main_textarea
        /\ main_textarea' # main_textarea =>
              /\ running_mode = "EDITOR"
              /\ editing_tab = "MAIN"
              /\ setup_textarea' = setup_textarea ]_vars

\* Some was returned after text was typed in the setup tab.
C27_Witness ==
    /\ query_result = "Some"
    /\ editing_tab = "SETUP"
    /\ query_state[1].setup_commands = << "i", "\n" >>
    /\ key = "Enter"

\* C28: a step of the query screen taken by the previous arm selects SETUP
\* (the previous tab of MAIN, SETUP itself for SETUP), one taken by the next
\* arm selects MAIN (the next tab of SETUP, MAIN itself for MAIN), and the
\* selected tab is always one of the two.
C28_PreviousNextStayInRange ==
    [][ /\ editing_tab' \in { "SETUP", "MAIN" }
        /\ (query_result = "running" /\ running_mode = "NORMAL"
              /\ query_result' = "running" /\ key' = "Left") =>
                 /\ editing_tab' = "SETUP"
                 /\ editing_tab' = previous(editing_tab)
        /\ (query_result = "running" /\ running_mode = "NORMAL"
              /\ query_result' = "running" /\ key' = "Right") =>
                 /\ editing_tab' = "MAIN"
                 /\ editing_tab' = next(editing_tab)
        /\ previous("SETUP") = "SETUP" /\ previous("MAIN") = "SETUP"
        /\ next("SETUP") = "MAIN" /\ next("MAIN") = "MAIN" ]_vars

\* Left was pressed on the first tab: it is still selected.
C28_Witness ==
    /\ key = "Left"
    /\ editing_tab = "SETUP"
    /\ running_mode = "NORMAL"
    /\ setup_textarea # << << >> >>

====
